---------------------------- MODULE Spec2Model ----------------------------
(***************************************************************************)
(* Lecture hall checker (src/app.py): the timetable file on disk, the      *)
(* loader that normalises it, the availability / conflict / usage queries  *)
(* and the upload handler.                                                 *)
(*                                                                         *)
(* A Python str is a sequence of one-character strings.  None / NaN is the *)
(* value None below, a sequence no str can equal.                          *)
(***************************************************************************)
EXTENDS Integers, Sequences, FiniteSets, TLC

VARIABLES
    file,       \* data/timetable.csv as it is on disk
    req,        \* the request being served (route, method, form, upload)
    df,         \* the handler's local df: what its load_timetable() returned
    resp,       \* the response of that request
    chart,      \* static/hall_usage.png: the bars generate_chart drew
    wpc,        \* position of an upload_file request inside file.save
    wbuf,       \* the content that request is saving
    wpos,       \* how many lines of it are already on disk
    committed,  \* the content of the file before that save began
    hallRaw,    \* a raw hall cell handed to clean_hall_name
    hallOnce,   \* clean_hall_name(hallRaw)
    hallTwice,  \* clean_hall_name(hallOnce)
    hallPass    \* how many times clean_hall_name has been applied

vars == <<file, req, df, resp, chart, wpc, wbuf, wpos, committed,
          hallRaw, hallOnce, hallTwice, hallPass>>

appVars  == <<file, req, df, resp, chart>>
saveVars == <<wpc, wbuf, wpos, committed>>
hallVars == <<hallRaw, hallOnce, hallTwice, hallPass>>

----------------------------------------------------------------------------
(* Bounds *)

MaxHallLen == 4
MaxRows == 3

----------------------------------------------------------------------------
(* Python str primitives *)

None == <<"<None>">>
Unset == <<"<unset>">>
Idle == [op |-> "none"]

Lowers == <<"a","b","c","d","e","f","g","h","i","j","k","l","m",
            "n","o","p","q","r","s","t","u","v","w","x","y","z">>
Uppers == <<"A","B","C","D","E","F","G","H","I","J","K","L","M",
            "N","O","P","Q","R","S","T","U","V","W","X","Y","Z">>

\* The characters of the model in code point order (what sorted() compares).
CodePoints == <<"\t", " ", "(", ")", "*", "+", "-", ".",
                "0","1","2","3","4","5","6","7","8","9", ":">>
              \o Uppers \o Lowers

Ord(c) ==
    IF \E i \in 1..Len(CodePoints) : CodePoints[i] = c
    THEN CHOOSE i \in 1..Len(CodePoints) : CodePoints[i] = c
    ELSE 0

IsLower(c) == \E i \in 1..Len(Lowers) : Lowers[i] = c
IsUpper(c) == \E i \in 1..Len(Uppers) : Uppers[i] = c
IsCased(c) == IsLower(c) \/ IsUpper(c)
IsSpace(c) == c \in {" ", "\t"}

UpperChar(c) ==
    IF IsLower(c) THEN Uppers[CHOOSE i \in 1..Len(Lowers) : Lowers[i] = c] ELSE c
LowerChar(c) ==
    IF IsUpper(c) THEN Lowers[CHOOSE i \in 1..Len(Uppers) : Uppers[i] = c] ELSE c

\* str.upper(), str.lower()
StrUpper(s) == [i \in 1..Len(s) |-> UpperChar(s[i])]
StrLower(s) == [i \in 1..Len(s) |-> LowerChar(s[i])]

\* str.title(): a cased character is upper-cased after an uncased one (or at
\* the start) and lower-cased after a cased one.
StrTitle(s) ==
    [i \in 1..Len(s) |->
        IF i = 1 \/ ~IsCased(s[i-1]) THEN UpperChar(s[i]) ELSE LowerChar(s[i])]

\* str.strip()
RECURSIVE LStrip(_)
LStrip(s) == IF s # <<>> /\ IsSpace(Head(s)) THEN LStrip(Tail(s)) ELSE s
RECURSIVE RStrip(_)
RStrip(s) ==
    IF s # <<>> /\ IsSpace(s[Len(s)]) THEN RStrip(SubSeq(s, 1, Len(s) - 1)) ELSE s
StrStrip(s) == RStrip(LStrip(s))

\* s.startswith(p)
StartsWith(s, p) == Len(p) <= Len(s) /\ SubSeq(s, 1, Len(p)) = p

\* s.replace(old, new) for a non-empty old: leftmost, non-overlapping.
RECURSIVE StrReplace(_, _, _)
StrReplace(s, old, new) ==
    IF s = <<>> THEN <<>>
    ELSE IF StartsWith(s, old)
         THEN new \o StrReplace(SubSeq(s, Len(old) + 1, Len(s)), old, new)
         ELSE <<Head(s)>> \o StrReplace(Tail(s), old, new)

\* re.sub(r"\s+", " ", s): every maximal run of whitespace becomes one space.
RECURSIVE CollapseSpaces(_)
CollapseSpaces(s) ==
    IF s = <<>> THEN <<>>
    ELSE IF IsSpace(Head(s))
         THEN <<" ">> \o CollapseSpaces(LStrip(s))
         ELSE <<Head(s)>> \o CollapseSpaces(Tail(s))

\* old in s (literal substring)
StrContains(s, sub) ==
    \E i \in 1..(Len(s) + 1) :
        i + Len(sub) - 1 <= Len(s) /\ SubSeq(s, i, i + Len(sub) - 1) = sub

\* s < t as Python compares two str: by code point, a proper prefix first.
RECURSIVE StrLess(_, _)
StrLess(s, t) ==
    IF t = <<>> THEN FALSE
    ELSE IF s = <<>> THEN TRUE
    ELSE IF Head(s) = Head(t) THEN StrLess(Tail(s), Tail(t))
    ELSE Ord(Head(s)) < Ord(Head(t))

----------------------------------------------------------------------------
(* load_timetable.clean_hall_name *)

\* The same steps with the "A B" / "E B" merge done before the whitespace
\* is collapsed.
clean_hall_name_MergeFirst(name) ==
    IF name = None THEN None
    ELSE LET u == StrUpper(name)
             m == StrReplace(StrReplace(u, <<"A"," ","B">>, <<"A","B">>),
                             <<"E"," ","B">>, <<"E","B">>)
             w == CollapseSpaces(m)
             p == StrReplace(StrReplace(w, <<"("," ">>, <<"(">>),
                             <<" ",")">>, <<")">>)
         IN  StrStrip(p)

clean_hall_name(name) ==
    IF name = None THEN None
    ELSE LET u == StrUpper(name)
             w == CollapseSpaces(u)
             p == StrReplace(StrReplace(w, <<"("," ">>, <<"(">>),
                             <<" ",")">>, <<")">>)
             m == StrReplace(StrReplace(p, <<"A"," ","B">>, <<"A","B">>),
                             <<"E"," ","B">>, <<"E","B">>)
         IN  StrStrip(m)

----------------------------------------------------------------------------
(* The timetable file and load_timetable *)

\* Column names as load_timetable knows them after strip().title().
DayCol    == <<"D","a","y">>
TimeCol   == <<"T","i","m","e">>
HallCol   == <<"L","e","c","t","u","r","e"," ","H","a","l","l">>
CourseCol == <<"C","o","u","r","s","e"," ","C","o","d","e">>

\* The header cells as an uploaded CSV spells them.
RawDayCol    == <<" ","d","a","y">>
RawTimeCol   == <<"T","I","M","E"," ">>
RawHallCol   == <<"l","e","c","t","u","r","e"," ","h","a","l","l">>
RawCourseCol == <<"C","o","u","r","s","e"," ","c","o","d","e">>
RawCols      == {RawDayCol, RawTimeCol, RawHallCol, RawCourseCol}

\* A CSV row: the cells under the four columns (None: an empty cell, or the
\* column is not in the file).
Row(d, t, h, c) == [day |-> d, time |-> t, hall |-> h, course |-> c]

Mon == <<"M","o","n">>
Tue == <<"T","u","e">>
T9am == <<"9","a","m">>
T19  == <<"1","9">>
T95  == <<"9",".","5">>
AB   == <<"A","B">>
EB   == <<"E","B">>
CS1  == <<"C","S","1">>
CS2  == <<"C","S","2">>
CS3  == <<"C","S","3">>

Row1 == Row(<<"m","o","n">>,     T9am,                AB,                  CS1)
Row2 == Row(<<" ","M","O","N">>, <<"9","a","m"," ">>, <<"a"," "," ","b">>, CS2)
Row3 == Row(Mon,                 T9am,                None,                CS3)
Row4 == Row(Mon,                 T19,                 <<"("," ","e"," ","b",")">>, CS2)
Row5 == Row(Tue,                 T95,                 EB,                  CS3)

RowCatalog == {Row1, Row2, Row3, Row4, Row5}

\* What the cells of a row are when only the columns `header` are in the file.
Project(r, header) ==
    [day    |-> IF RawDayCol    \in header THEN r.day    ELSE None,
     time   |-> IF RawTimeCol   \in header THEN r.time   ELSE None,
     hall   |-> IF RawHallCol   \in header THEN r.hall   ELSE None,
     course |-> IF RawCourseCol \in header THEN r.course ELSE None]

RECURSIVE SeqsUpTo(_, _)
SeqsUpTo(S, n) ==
    IF n = 0 THEN {<<>>}
    ELSE LET shorter == SeqsUpTo(S, n - 1)
         IN  shorter \cup {Append(q, x) : q \in shorter, x \in S}

\* The file on disk: absent, zero bytes, bytes that are no table, or a CSV
\* (header line and rows; a file may carry other columns too, so a CSV with
\* none of the four columns is still a table).
Absent    == [kind |-> "absent", header |-> {}, rows |-> <<>>]
ZeroBytes == [kind |-> "zero",   header |-> {}, rows |-> <<>>]
Garbage   == [kind |-> "garbage", header |-> {}, rows |-> <<>>]
Csv(header, rows) ==
    [kind |-> "csv", header |-> header,
     rows |-> [i \in 1..Len(rows) |-> Project(rows[i], header)]]

\* The result of load_timetable(): the DataFrame (its columns and rows), or
\* the exception pd.read_csv raised.
Frame(columns, rows) == [status |-> "ok", columns |-> columns, rows |-> rows]
Raised(exc)          == [status |-> exc,  columns |-> {},      rows |-> <<>>]

\* df["Day"].astype(str).str.strip().str.title(): NaN becomes the text "nan".
NormDay(cell) ==
    StrTitle(StrStrip(IF cell = None THEN <<"n","a","n">> ELSE cell))
\* df["Time"].astype(str).str.strip()
NormTime(cell) ==
    StrStrip(IF cell = None THEN <<"n","a","n">> ELSE cell)

load_timetable(f) ==
    IF f.kind = "absent" THEN Frame({}, <<>>)
    ELSE IF f.kind = "zero" THEN Raised("EmptyDataError")
    ELSE IF f.kind = "garbage" THEN Raised("ParserError")
    ELSE LET columns == {StrTitle(StrStrip(h)) : h \in f.header}
             Clean(r) ==
                 [day    |-> IF DayCol  \in columns THEN NormDay(r.day)   ELSE None,
                  time   |-> IF TimeCol \in columns THEN NormTime(r.time) ELSE None,
                  hall   |-> IF HallCol \in columns THEN clean_hall_name(r.hall)
                                                   ELSE None,
                  course |-> r.course]
         IN  Frame(columns, [i \in 1..Len(f.rows) |-> Clean(f.rows[i])])

\* df.empty
IsEmpty(d) == Len(d.rows) = 0

----------------------------------------------------------------------------
(* sorted(), and the regular expression a time query is compiled to *)

\* sorted(S) for a set of str
RECURSIVE SortedStrs(_)
SortedStrs(S) ==
    IF S = {} THEN <<>>
    ELSE LET least == CHOOSE x \in S : \A y \in S \ {x} : StrLess(x, y)
         IN  <<least>> \o SortedStrs(S \ {least})

Range(q) == {q[i] : i \in 1..Len(q)}

\* re.compile(pattern) for a pattern made of ordinary characters, ".", the
\* postfix repeats "*" and "+" (never two in a row), "(" and ")" (never a
\* "(" with a ")" after it): the items to match in order, or re.error.
\* "x+" is the item x followed by the item x*.
RECURSIVE PatternItems(_)
PatternItems(p) ==
    IF p = <<>> THEN [ok |-> TRUE, items |-> <<>>]
    ELSE IF Head(p) \in {"*", "+", "(", ")"}
         \* nothing to repeat / missing ) / unbalanced parenthesis
         THEN [ok |-> FALSE, items |-> <<>>]
    ELSE LET rep  == IF Len(p) >= 2 /\ p[2] \in {"*", "+"} THEN p[2] ELSE "1"
             rest == PatternItems(SubSeq(p, IF rep = "1" THEN 2 ELSE 3, Len(p)))
             here == IF rep = "1" THEN <<[ch |-> Head(p), rep |-> "1"]>>
                     ELSE IF rep = "*" THEN <<[ch |-> Head(p), rep |-> "*"]>>
                     ELSE <<[ch |-> Head(p), rep |-> "1"], [ch |-> Head(p), rep |-> "*"]>>
         IN  [ok |-> rest.ok, items |-> IF rest.ok THEN here \o rest.items ELSE <<>>]

\* One pattern character against one subject character under re.IGNORECASE.
CharMatches(pc, c) ==
    IF pc = "." THEN c # "\n" ELSE LowerChar(pc) = LowerChar(c)

\* Whether items[k..] match s starting at position i.
RECURSIVE MatchFrom(_, _, _, _)
MatchFrom(items, k, s, i) ==
    IF k > Len(items) THEN TRUE
    ELSE LET hit == i <= Len(s) /\ CharMatches(items[k].ch, s[i])
         IN  IF items[k].rep = "1"
             THEN hit /\ MatchFrom(items, k + 1, s, i + 1)
             ELSE \/ MatchFrom(items, k + 1, s, i)
                  \/ hit /\ MatchFrom(items, k, s, i + 1)

\* re.search(pattern, s, re.IGNORECASE) is not None, for a pattern that compiles
RegexSearch(pattern, s) ==
    LET items == PatternItems(pattern).items
    IN  \E i \in 1..(Len(s) + 1) : MatchFrom(items, 1, s, i)

\* Series.str.contains(time, case=False, na=False) on one cell: "error" when
\* the query does not compile, else whether the cell matches.
TimeContains(cell, time) ==
    IF ~PatternItems(time).ok THEN "error"
    ELSE IF RegexSearch(time, cell) THEN "match" ELSE "no"

----------------------------------------------------------------------------
(* get_free_halls *)

\* set(df["Lecture Hall"].dropna()) over the rows numbered in `idx`
HallsOf(d, idx) == {d.rows[i].hall : i \in idx} \ {None}

Failed(exc) == [status |-> exc, free |-> <<>>, occupied |-> <<>>]

get_free_halls_AllFree(d, day, time) ==
    IF IsEmpty(d) THEN [status |-> "ok", free |-> <<>>, occupied |-> <<>>]
    ELSE IF DayCol \notin d.columns \/ TimeCol \notin d.columns THEN Failed("KeyError")
    ELSE IF ~PatternItems(StrStrip(time)).ok THEN Failed("re.error")
    ELSE IF HallCol \notin d.columns THEN Failed("KeyError")
    ELSE LET day1 == StrTitle(StrStrip(day))
             time1 == StrStrip(time)
             occupied == {i \in 1..Len(d.rows) :
                             /\ d.rows[i].day = day1
                             /\ TimeContains(d.rows[i].time, time1) = "match"}
             occupied_halls == SortedStrs(HallsOf(d, occupied))
             all_halls == SortedStrs(HallsOf(d, 1..Len(d.rows)))
         IN  [status |-> "ok", free |-> all_halls, occupied |-> occupied_halls]

get_free_halls(d, day, time) ==
    IF IsEmpty(d) THEN [status |-> "ok", free |-> <<>>, occupied |-> <<>>]
    ELSE IF DayCol \notin d.columns \/ TimeCol \notin d.columns THEN Failed("KeyError")
    ELSE IF ~PatternItems(StrStrip(time)).ok THEN Failed("re.error")
    ELSE IF HallCol \notin d.columns THEN Failed("KeyError")
    ELSE LET day1 == StrTitle(StrStrip(day))
             time1 == StrStrip(time)
             occupied == {i \in 1..Len(d.rows) :
                             /\ d.rows[i].day = day1
                             /\ TimeContains(d.rows[i].time, time1) = "match"}
             occupied_halls == SortedStrs(HallsOf(d, occupied))
             all_halls == SortedStrs(HallsOf(d, 1..Len(d.rows)))
             free_halls == SortedStrs(Range(all_halls) \ Range(occupied_halls))
         IN  [status |-> "ok", free |-> free_halls, occupied |-> occupied_halls]

----------------------------------------------------------------------------
(* detect_conflicts *)

Triple(r) == <<r.day, r.time, r.hall>>

\* (day, time, hall) tuples as sorted by groupby: field by field.
TripleLess(a, b) ==
    \/ StrLess(a[1], b[1])
    \/ a[1] = b[1] /\ StrLess(a[2], b[2])
    \/ a[1] = b[1] /\ a[2] = b[2] /\ StrLess(a[3], b[3])

RECURSIVE SortedTriples(_)
SortedTriples(S) ==
    IF S = {} THEN <<>>
    ELSE LET least == CHOOSE x \in S : \A y \in S \ {x} : TripleLess(x, y)
         IN  <<least>> \o SortedTriples(S \ {least})

\* The groups of df.groupby(["Day", "Time", "Lecture Hall"]): pandas drops the
\* rows with a missing key (dropna=True), so a None hall forms no group.
GroupKeys_KeepNone(d) == {Triple(d.rows[i]) : i \in 1..Len(d.rows)}

GroupKeys(d) ==
    {k \in {Triple(d.rows[i]) : i \in 1..Len(d.rows)} : k[3] # None}

GroupSize(d, key) == Cardinality({i \in 1..Len(d.rows) : Triple(d.rows[i]) = key})

\* A group counted as a conflict as soon as it has a record.
IsConflict_AnyGroup(d, key) == GroupSize(d, key) > 0

\* conflicts[conflicts["Count"] > 1]
IsConflict(d, key) == GroupSize(d, key) > 1

detect_conflicts(d) ==
    IF IsEmpty(d) THEN [status |-> "ok", entries |-> <<>>]
    ELSE IF {DayCol, TimeCol, HallCol} \ d.columns # {}
         THEN [status |-> "KeyError", entries |-> <<>>]
    ELSE LET conflicts == {k \in GroupKeys(d) : IsConflict(d, k)}
             InConflict(r) == Triple(r) \in conflicts
             details == SelectSeq(d.rows, InConflict)
             keys == SortedTriples(conflicts)
             Courses(k) ==
                 LET OfKey(r) == Triple(r) = k
                     rs == SelectSeq(details, OfKey)
                 IN  [i \in 1..Len(rs) |-> rs[i].course]
         IN  IF conflicts = {} THEN [status |-> "ok", entries |-> <<>>]
             ELSE IF CourseCol \notin d.columns
                  THEN [status |-> "KeyError", entries |-> <<>>]
             ELSE [status |-> "ok",
                   entries |-> [i \in 1..Len(keys) |->
                                  [day |-> keys[i][1], time |-> keys[i][2],
                                   hall |-> keys[i][3], courses |-> Courses(keys[i])]]]

----------------------------------------------------------------------------
(* Series.value_counts and the statistics of index *)

\* df["Lecture Hall"].nunique(): the distinct halls, NaN not counted
Halls(d) == HallsOf(d, 1..Len(d.rows))

HallCount(d, h) == Cardinality({i \in 1..Len(d.rows) : d.rows[i].hall = h})

Orderings(S) ==
    {o \in [1..Cardinality(S) -> S] : \A i, j \in DOMAIN o : i # j => o[i] # o[j]}

\* The row in which hall h first appears.
FirstRow(d, h) ==
    CHOOSE i \in 1..Len(d.rows) :
        d.rows[i].hall = h /\ \A j \in 1..(i - 1) : d.rows[j].hall # h

\* value_counts(sort=False): the halls in order of first appearance.
value_counts_Unsorted(d) ==
    CHOOSE o \in Orderings(Halls(d)) :
        \A i, j \in DOMAIN o : i < j => FirstRow(d, o[i]) < FirstRow(d, o[j])

\* df["Lecture Hall"].value_counts(): the halls (NaN dropped) counted in
\* order of first appearance, then sorted by descending count with a sort
\* that leaves halls of equal count in that order.
value_counts(d) ==
    CHOOSE o \in Orderings(Halls(d)) :
        \A i, j \in DOMAIN o : i < j =>
            \/ HallCount(d, o[i]) > HallCount(d, o[j])
            \/ /\ HallCount(d, o[i]) = HallCount(d, o[j])
               /\ FirstRow(d, o[i]) < FirstRow(d, o[j])

Counts(d, o) == [i \in DOMAIN o |-> HallCount(d, o[i])]

NA == <<"N","/","A">>

\* df["Lecture Hall"].mode()[0]: the modes come sorted, so the least of them
most_used(d) ==
    LET top == {h \in Halls(d) : \A g \in Halls(d) : HallCount(d, h) >= HallCount(d, g)}
    IN  SortedStrs(top)[1]

\* value_counts().idxmin(): the first label of least count
least_used(d, o) ==
    LET low == {i \in DOMAIN o : \A j \in DOMAIN o : HallCount(d, o[i]) <= HallCount(d, o[j])}
    IN  o[CHOOSE i \in low : \A j \in low : i <= j]

----------------------------------------------------------------------------
(* The routes *)

GET  == "GET"
POST == "POST"

Http500(exc) == [status |-> exc]

\* What index() renders from a df that loaded, with value_counts giving the
\* halls in the order o.
index_page(d, method, day, time, o) ==
    LET has_hall == HallCol \in d.columns
        total_halls == IF has_hall THEN Cardinality(Halls(d)) ELSE 0
        stats ==
            [day_options  |-> IF DayCol \in d.columns
                              THEN SortedStrs({d.rows[i].day : i \in 1..Len(d.rows)})
                              ELSE <<>>,
             time_options |-> IF TimeCol \in d.columns
                              THEN SortedStrs({d.rows[i].time : i \in 1..Len(d.rows)})
                              ELSE <<>>,
             total_courses |-> Len(d.rows),
             total_halls  |-> total_halls,
             most_used    |-> IF total_halls > 0 THEN most_used(d) ELSE NA,
             least_used   |-> IF total_halls > 0 THEN least_used(d, o) ELSE NA]
        fo == get_free_halls(d, day, time)
        cf == detect_conflicts(d)
    IN  IF method = GET
        THEN [status |-> "ok", free |-> <<>>, occupied |-> <<>>,
              conflicts |-> <<>>, stats |-> stats]
        ELSE IF fo.status # "ok" THEN Http500(fo.status)
        ELSE IF cf.status # "ok" THEN Http500(cf.status)
        ELSE [status |-> "ok", free |-> fo.free, occupied |-> fo.occupied,
              conflicts |-> cf.entries, stats |-> stats]

\* index(): load_timetable, the statistics, and on POST the two queries.
Index(method, day, time) ==
    /\ req' = [op |-> "index", method |-> method, day |-> day, time |-> time]
    /\ df' = load_timetable(file)
    /\ IF df'.status # "ok"
       THEN resp' = Http500(df'.status)
       ELSE resp' = index_page(df', method, day, time, value_counts(df'))
    /\ UNCHANGED <<file, chart, saveVars, hallVars>>

\* chart_data()
ChartData ==
    /\ req' = [op |-> "chart_data"]
    /\ df' = load_timetable(file)
    /\ IF df'.status # "ok"
       THEN resp' = Http500(df'.status)
       ELSE IF IsEmpty(df') \/ HallCol \notin df'.columns
       THEN resp' = [status |-> "ok", labels |-> <<>>, values |-> <<>>]
       ELSE resp' = [status |-> "ok", labels |-> value_counts(df'),
                     values |-> Counts(df', value_counts(df'))]
    /\ UNCHANGED <<file, chart, saveVars, hallVars>>

ALLOWED_EXTENSIONS == {<<"c","s","v">>}

\* filename.rsplit(".", 1)[1] for a filename with a "." in it
RECURSIVE AfterLastDot(_)
AfterLastDot(name) ==
    IF "." \in Range(Tail(name)) THEN AfterLastDot(Tail(name))
    ELSE IF Head(name) = "." THEN Tail(name)
    ELSE AfterLastDot(Tail(name))

\* The extension compared as it is spelled.
allowed_file_CaseSensitive(filename) ==
    "." \in Range(filename) /\ AfterLastDot(filename) \in ALLOWED_EXTENSIONS

allowed_file(filename) ==
    "." \in Range(filename) /\ StrLower(AfterLastDot(filename)) \in ALLOWED_EXTENSIONS

NoChart == [labels |-> <<>>, values |-> <<>>, drawn |-> FALSE]

Redirect(flashes) == [status |-> "redirect", flashes |-> flashes]

\* The part of upload_file after file.save: reload, redraw, redirect.
\* generate_chart leaves the image alone for an empty df, raises KeyError
\* without a hall column, and else draws value_counts (an empty series of
\* counts may or may not be drawable).
AfterSave ==
    /\ df' = load_timetable(file')
    /\ IF df'.status # "ok"
       THEN resp' = Http500(df'.status) /\ chart' = chart
       ELSE IF IsEmpty(df')
       THEN resp' = Redirect(<<"uploaded", "chart updated">>) /\ chart' = chart
       ELSE IF HallCol \notin df'.columns
       THEN resp' = Http500("KeyError") /\ chart' = chart
       ELSE \/ /\ chart' = [labels |-> value_counts(df'),
                          values |-> Counts(df', value_counts(df')), drawn |-> TRUE]
               /\ resp' = Redirect(<<"uploaded", "chart updated">>)
            \/ /\ value_counts(df') = <<>>
               /\ chart' = chart
               /\ resp' = Http500("plot error")

\* upload_file() for a request whose file part is named filename (None: the
\* request has no file part) and holds content.
Upload(filename, content) ==
    /\ req' = [op |-> "upload", filename |-> filename, content |-> content]
    /\ IF filename = None
       THEN resp' = Redirect(<<"no file part">>) /\ UNCHANGED <<file, df, chart>>
       ELSE IF filename = <<>>
       THEN resp' = Redirect(<<"no file selected">>) /\ UNCHANGED <<file, df, chart>>
       ELSE IF allowed_file(filename)
       THEN file' = content /\ AfterSave
       ELSE resp' = Redirect(<<"invalid file type">>) /\ UNCHANGED <<file, df, chart>>
    /\ UNCHANGED <<saveVars, hallVars>>

----------------------------------------------------------------------------
(* The inputs *)

Days == { <<"m","o","n"," ">>, Tue, <<"W","e","d">> }

TimeQueries ==
    { <<>>, <<"9">>, <<" ","A","M">>, <<".">>, <<"9",".","5">>,
      <<"(">>, <<"+">>, <<"m","*">>, <<"1","+">> }

Filenames ==
    { None, <<>>,
      <<"t",".","c","s","v">>, <<"T",".","C","s","V">>, <<".","c","s","v">>,
      <<"t",".","t","x","t">>, <<"c","s","v">>, <<"t",".","c","s","v",".","b">> }

UploadContents ==
    { Garbage, ZeroBytes,
      Csv(RawCols, <<>>),
      Csv(RawCols, <<Row1, Row2>>),
      Csv(RawCols, <<Row5>>),
      Csv(RawCols \ {RawHallCol}, <<Row1>>) }

IdleApp ==
    /\ req = Idle
    /\ df = Idle
    /\ resp = Idle
    /\ chart = NoChart

IdleSave ==
    /\ wpc = "idle"
    /\ wbuf = Idle
    /\ wpos = 0
    /\ committed = Idle

IdleHall ==
    /\ hallRaw = None
    /\ hallOnce = Unset
    /\ hallTwice = Unset
    /\ hallPass = 0

----------------------------------------------------------------------------
(* The application serving one request at a time *)

Init ==
    /\ file = Absent
    /\ IdleApp
    /\ IdleSave
    /\ IdleHall

IndexGet == Index(GET, <<>>, <<>>)

IndexPost == \E day \in Days, time \in TimeQueries : Index(POST, day, time)

UploadFile == \E filename \in Filenames, content \in UploadContents :
                  Upload(filename, content)

Next == UploadFile \/ IndexGet \/ IndexPost \/ ChartData

Spec == Init /\ [][Next]_vars

----------------------------------------------------------------------------
(* An upload interleaved with readers *)

\* The lines of a file: the header and the rows of a CSV.
Lines(f) ==
    IF f.kind = "csv" THEN 1 + Len(f.rows)
    ELSE IF f.kind = "garbage" THEN 1 ELSE 0

\* The file when the first n lines of f have been written to it.
Written(f, n) ==
    IF n = 0 THEN ZeroBytes
    ELSE IF f.kind = "csv"
         THEN [kind |-> "csv", header |-> f.header, rows |-> SubSeq(f.rows, 1, n - 1)]
         ELSE f

\* upload_file() reaches file.save(filepath): open(filepath, "wb") empties
\* the file in place.
SaveOpen ==
    /\ wpc = "idle"
    /\ \E filename \in Filenames \ {None, <<>>}, content \in UploadContents :
           /\ allowed_file(filename)
           /\ wbuf' = [op |-> "upload", filename |-> filename, content |-> content]
    /\ file' = ZeroBytes
    /\ committed' = file
    /\ wpos' = 0
    /\ wpc' = "saving"
    /\ UNCHANGED <<req, df, resp, chart, hallVars>>

\* file.save copies the upload into the open file a chunk at a time; a chunk
\* ends with any later line.
SaveWrite ==
    /\ wpc = "saving"
    /\ \E n \in (wpos + 1)..Lines(wbuf.content) :
           /\ wpos' = n
           /\ file' = Written(wbuf.content, n)
    /\ UNCHANGED <<req, df, resp, chart, wpc, wbuf, committed, hallVars>>

\* The copy is complete: upload_file reloads, redraws and redirects.
SaveClose ==
    /\ wpc = "saving"
    /\ wpos = Lines(wbuf.content)
    /\ req' = wbuf
    /\ file' = file
    /\ AfterSave
    /\ wpc' = "idle"
    /\ wbuf' = Idle
    /\ wpos' = 0
    /\ committed' = Idle
    /\ UNCHANGED hallVars

NextSave == SaveOpen \/ SaveWrite \/ SaveClose \/ IndexGet \/ ChartData

SpecSave == Init /\ [][NextSave]_vars

\* C2 as claimed: a reader that loads the timetable while an upload is being
\* saved gets the complete old dataset or the complete new one.
C2_ReadersSeeOldOrNew ==
    [][(/\ wpc = "saving"
        /\ UNCHANGED saveVars
        /\ req'.op \in {"index", "chart_data"})
       => df' \in {load_timetable(committed), load_timetable(wbuf.content)}]_vars

----------------------------------------------------------------------------
(* The queries over every small timetable *)

\* Every column present, one of the four absent, or all four absent.
Headers == {RawCols, {}} \cup {RawCols \ {c} : c \in RawCols}

QueryFiles ==
    {Absent} \cup {Csv(h, rows) : h \in Headers, rows \in SeqsUpTo(RowCatalog, MaxRows)}

InitQuery ==
    /\ file \in QueryFiles
    /\ IdleApp
    /\ IdleSave
    /\ IdleHall

\* The queries only read the file: one request per timetable shows all they do.
NextQuery ==
    \/ req = Idle /\ IndexGet
    \/ req = Idle /\ IndexPost
    \/ req = Idle /\ ChartData

SpecQuery == InitQuery /\ [][NextQuery]_vars

----------------------------------------------------------------------------
(* Properties of upload_file *)

Uploaded == req.op = "upload"

\* filename.lower().endswith(".csv")
EndsInCsv(filename) ==
    /\ Len(filename) >= 4
    /\ StrLower(SubSeq(filename, Len(filename) - 3, Len(filename)))
           = <<".","c","s","v">>

\* C1 as claimed: when the stored timetable loads and an upload brings a
\* file that cannot be parsed, the stored timetable still loads to the same
\* records afterwards.
C1_BadUploadKeepsLastGood ==
    [][(/\ req'.op = "upload"
        /\ load_timetable(req'.content).status # "ok"
        /\ file.kind = "csv")
       => load_timetable(file') = load_timetable(file)]_vars

\* C7: an upload is accepted iff its file name ends in .csv, compared
\* case-insensitively; a request with any other name, an empty name or no
\* file part leaves the stored timetable (and the chart) as they were, and an
\* accepted upload makes its content the stored timetable.
C7_UploadAcceptance ==
    [][req'.op = "upload" =>
         IF req'.filename # None /\ EndsInCsv(req'.filename)
         THEN file' = req'.content
         ELSE file' = file /\ chart' = chart /\ resp'.status = "redirect"]_vars

\* A timetable is stored and charted, and an upload named "t.csv.b" has
\* just been turned away.
C7_Witness ==
    /\ Uploaded
    /\ req.filename = <<"t",".","c","s","v",".","b">>
    /\ req.content.kind = "csv"
    /\ file.kind = "csv"
    /\ file # req.content
    /\ chart.drawn
    /\ resp = Redirect(<<"invalid file type">>)

----------------------------------------------------------------------------
(* Properties of the queries *)

Posted == req.op = "index" /\ req.method = POST
Answered == Posted /\ resp.status = "ok"

Rows(d) == 1..Len(d.rows)

NoRepeats(q) == Cardinality(Range(q)) = Len(q)

\* C3: the free and occupied lists of an availability query partition the
\* distinct non-null halls of the dataset, and occupied is exactly the halls
\* of the records whose day is the trimmed, title-cased query day and whose
\* time matches the trimmed query.
C3_FreeOccupiedPartition ==
    Answered =>
        LET asked == {i \in Rows(df) :
                         /\ df.rows[i].day = StrTitle(StrStrip(req.day))
                         /\ TimeContains(df.rows[i].time, StrStrip(req.time)) = "match"}
            every == {df.rows[i].hall : i \in Rows(df)} \ {None}
        IN  /\ Range(resp.free) \cup Range(resp.occupied) = every
            /\ Range(resp.free) \cap Range(resp.occupied) = {}
            /\ Range(resp.occupied) = {df.rows[i].hall : i \in asked} \ {None}
            /\ NoRepeats(resp.free) /\ NoRepeats(resp.occupied)

\* A query that splits the halls: some occupied, some free, and a record
\* without a hall in the dataset.
C3_Witness ==
    /\ Answered
    /\ resp.free # <<>>
    /\ resp.occupied # <<>>
    /\ \E i \in Rows(df) : df.rows[i].hall = None

Occurrences(d, k) == Cardinality({i \in Rows(d) : Triple(d.rows[i]) = k})
Repeated(d) == {k \in {Triple(d.rows[i]) : i \in Rows(d)} : Occurrences(d, k) > 1}
EntryKey(e) == <<e.day, e.time, e.hall>>
EntryKeys(entries) == {EntryKey(entries[i]) : i \in 1..Len(entries)}

NullHallRepeated(d) ==
    \E i, j \in Rows(d) : /\ i # j
                          /\ d.rows[i].hall = None /\ d.rows[j].hall = None
                          /\ d.rows[i].day = d.rows[j].day
                          /\ d.rows[i].time = d.rows[j].time

\* C5 as claimed: records that share day and time and all lack a hall are
\* reported as one conflict group whose hall is null.
C5_Original ==
    (Answered /\ NullHallRepeated(df)) =>
        \E i \in 1..Len(resp.conflicts) : resp.conflicts[i].hall = None

\* C5 (amended): conflict grouping drops a null hall: when two or more
\* records share day and time and all lack a hall, detect_conflicts reports
\* no conflict group with a null hall for them.
C5_NullHallNeverReported ==
    (Answered /\ NullHallRepeated(df)) =>
        \A i \in 1..Len(resp.conflicts) : resp.conflicts[i].hall # None

\* Two hall-less records in one slot beside a third record, and the conflict
\* query answered.
C5_Witness ==
    /\ Answered
    /\ NullHallRepeated(df)
    /\ Len(df.rows) = 3
    /\ resp.conflicts = <<>>

Recognised == {DayCol, TimeCol, HallCol, CourseCol}

\* C6 as claimed: with a non-empty dataset that lacks some of the four
\* columns, index (GET and POST) and chart_data complete without raising.
C6_MissingColumnNeverRaises ==
    (/\ req.op \in {"index", "chart_data"}
     /\ df.status = "ok"
     /\ ~IsEmpty(df)
     /\ Recognised \ df.columns # {}) => resp.status # "KeyError"

\* C8 as claimed: a record matches the time predicate iff its stored time
\* contains the trimmed query as a literal, case-insensitive substring, for
\* every query string.
C8_LiteralSubstring ==
    (/\ Posted
     /\ df.status = "ok"
     /\ ~IsEmpty(df)
     /\ {DayCol, TimeCol, HallCol} \subseteq df.columns) =>
        /\ resp.status # "re.error"
        /\ resp.status = "ok" =>
               Range(resp.occupied) =
                   {df.rows[i].hall : i \in
                       {j \in Rows(df) :
                           /\ df.rows[j].day = StrTitle(StrStrip(req.day))
                           /\ StrContains(StrLower(df.rows[j].time),
                                          StrLower(StrStrip(req.time)))}} \ {None}

Charted == req.op = "chart_data" /\ resp.status = "ok"

Descending(d, labels) ==
    \A i, j \in 1..Len(labels) :
        i < j => HallCount(d, labels[i]) >= HallCount(d, labels[j])

\* C9 as claimed: descending count, and halls of equal count in ascending
\* name order, whatever the order of the rows.
C9_Original ==
    Charted =>
        /\ Descending(df, resp.labels)
        /\ \A i, j \in 1..Len(resp.labels) :
               (i < j /\ resp.values[i] = resp.values[j]) =>
                   StrLess(resp.labels[i], resp.labels[j])

\* C9 (amended): chart_data lists every hall of the dataset once with its
\* record count, labels and values parallel, in descending count order; the
\* halls of equal count are not put in name order.
C9_DescendingCounts ==
    Charted =>
        /\ Range(resp.labels) = {df.rows[i].hall : i \in Rows(df)} \ {None}
        /\ NoRepeats(resp.labels)
        /\ Len(resp.values) = Len(resp.labels)
        /\ \A i \in 1..Len(resp.labels) :
               resp.values[i] =
                   Cardinality({k \in Rows(df) : df.rows[k].hall = resp.labels[i]})
        /\ \A i, j \in 1..Len(resp.values) : i < j => resp.values[i] >= resp.values[j]

\* A hall booked twice listed before a hall booked once that sorts before it.
C9_Witness ==
    /\ Charted
    /\ Len(resp.labels) = 2
    /\ resp.values = <<2, 1>>
    /\ StrLess(resp.labels[2], resp.labels[1])

----------------------------------------------------------------------------
(* Normalising a hall cell, and normalising the result again *)

HallChars == {"a", "A", "B", "E", " ", "\t", "(", ")"}

\* Every raw cell of at most MaxHallLen characters, and the empty cell.
HallInputs == SeqsUpTo(HallChars, MaxHallLen) \cup {None}

InitHall ==
    /\ hallRaw \in HallInputs
    /\ hallOnce = Unset
    /\ hallTwice = Unset
    /\ hallPass = 0
    /\ file = Absent
    /\ IdleApp
    /\ IdleSave

\* df["Lecture Hall"].apply(clean_hall_name) on the raw cell
CleanRaw ==
    /\ hallPass = 0
    /\ hallOnce' = clean_hall_name(hallRaw)
    /\ hallPass' = 1
    /\ UNCHANGED <<hallRaw, hallTwice, appVars, saveVars>>

\* the same on a cell that is already the result of clean_hall_name
CleanAgain ==
    /\ hallPass = 1
    /\ hallTwice' = clean_hall_name(hallOnce)
    /\ hallPass' = 2
    /\ UNCHANGED <<hallRaw, hallOnce, appVars, saveVars>>

NextHall == CleanRaw \/ CleanAgain

SpecHall == InitHall /\ [][NextHall]_vars

\* C10: hall-name normalisation is idempotent: cleaning a cleaned hall name
\* gives the same name again, and a missing value stays None.
C10_CleanHallIdempotent ==
    hallPass = 2 =>
        /\ hallTwice = hallOnce
        /\ (hallRaw = None => hallOnce = None)

\* A hall name that the first pass really changed (case, spacing, brackets and
\* the "A B" merge all at once), cleaned twice.
C10_Witness ==
    /\ hallPass = 2
    /\ hallRaw = <<"(", " ", "a", "\t">>
    /\ hallOnce = <<"(", "A">>

=============================================================================
